---------------------------- MODULE Spec2Model ----------------------------
(***************************************************************************)
(* TapFinity backend (src/app.py): the student account table, the         *)
(* transaction log and the request handlers that read and write them.     *)
(*                                                                         *)
(* Every handler opens its own PostgreSQL connection (get_db) and runs    *)
(* its statements in one transaction at the server's default isolation    *)
(* level, READ COMMITTED: each statement sees the rows committed before   *)
(* it started, an UPDATE takes the row's lock until the transaction ends, *)
(* and the transaction's writes become visible to others at commit.       *)
(* Handlers of different requests interleave statement by statement.      *)
(***************************************************************************)
EXTENDS Integers, Sequences, FiniteSets, TLC

\* ------------------------------------------------------------------ bounds
\* Number of request handlers that can be in flight at once.
NumWorkers == 2
\* Number of requests served in one behaviour.
MaxRequests == 3
\* Last value of the database clock.
MaxTime == 1

\* --------------------------------------------------------- program constants
\* LIMIT of the dashboard's transaction query.
RecentLimit == 20
\* Default of the "limit" argument of /api/admin/transactions.
DefaultLimit == 50

\* ------------------------------------------------------------------ inputs
\* Identifiers as they arrive in a request, before .upper().
RawUids == {"c1", "C2"}
RawUsns == {"u1", "U2"}
\* JSON amounts of /deduct and /api/add_balance.
Amounts == {-60, 40, 60}
\* "balance" of /api/add_student.
InitBalances == {100}

\* str.upper() on the identifiers above.
Upper(x) ==
    CASE x = "c1" -> "C1"
      [] x = "u1" -> "U1"
      [] OTHER -> x

\* cursor.fetchone() on an empty result.
NoRow == [absent |-> TRUE]

VARIABLES
    students,      \* committed rows of table students
    transactions,  \* committed rows of table transactions, in commit order
    conn,          \* the requests in flight: each handler's position and locals
    reply,         \* the reply the latest step sent, with its request's locals
    now,           \* the database clock (CURRENT_TIMESTAMP)
    started,       \* requests served so far
    enrolled       \* uid -> balance the account was created with

vars == <<students, transactions, conn, reply, now, started, enrolled>>

\* The locals of a handler before its request is read; also the value of
\* reply before any request was served.
Idle ==
    [id |-> 0, op |-> "none", pc |-> "idle", uid |-> "", usn |-> "", amt |-> 0,
     s |-> NoRow, new_bal |-> 0, flag |-> FALSE,
     ts |-> 0,    \* CURRENT_TIMESTAMP of a transaction that writes the log
     code |-> 0, ok |-> FALSE, msg |-> "", balance |-> 0, tx |-> <<>>]

\* A worker is free to take the next request.
Free == Cardinality(conn) < NumWorkers /\ started < MaxRequests

\* The locals of the handler of a newly arrived request.
Begin(op) == [Idle EXCEPT !.id = started + 1, !.op = op, !.pc = "begin"]

\* SELECT * FROM students WHERE uid=%s ; fetchone()
ByUid(uid) ==
    IF \E r \in students : r.uid = uid
    THEN CHOOSE r \in students : r.uid = uid
    ELSE NoRow

\* SELECT ... FROM students WHERE usn=%s ; fetchone()
ByUsn(usn) ==
    IF \E r \in students : r.usn = usn
    THEN CHOOSE r \in students : r.usn = usn
    ELSE NoRow

\* The row lock an UPDATE holds until its transaction commits.
HoldsLock(c, uid) ==
    /\ c.op \in {"deduct", "add_balance", "block", "unblock"}
    /\ c.pc = "commit"
    /\ c.s.uid = uid

LockFree(uid) == \A c \in conn : ~HoldsLock(c, uid)

Init ==
    /\ students = {}
    /\ transactions = <<>>
    /\ conn = {}
    /\ reply = Idle
    /\ now = 0
    /\ started = 0
    /\ enrolled = <<>>

\* CURRENT_TIMESTAMP when a transaction that writes the log starts: the clock
\* has advanced since it was last read (tick) or has not.
Tick(tick) ==
    /\ tick => now < MaxTime
    /\ now' = IF tick THEN now + 1 ELSE now


\* return jsonify(...), code : the handler of request c ends with this reply.
Reply(c, code, ok, msg) ==
    [c EXCEPT !.pc = "done", !.code = code, !.ok = ok, !.msg = msg]

\* The handler of request c sends reply r; its connection is closed.
Send(c, r) ==
    /\ reply' = r
    /\ conn' = conn \ {c}

\* The handler of request c goes on, its locals now d; the step sends no reply.
Continue(c, d) ==
    /\ conn' = (conn \ {c}) \cup {d}
    /\ reply' = Idle

\* An unhandled exception: Flask answers 500 and the connection is dropped,
\* which rolls its transaction back.
Crash(c) == Reply(c, 500, FALSE, "Internal Server Error")

\* ------------------------------------------------------------ add_student
\* Mutant: only uid carries a UNIQUE constraint.
UniqueOnUidOnly(usn, uid) ==
    \E r \in students : r.uid = uid

\* A unique index refuses a key that a committed row already has.
UniqueViolation(usn, uid) ==
    \E r \in students : r.uid = uid \/ r.usn = usn

\* An INSERT waits while another transaction's uncommitted INSERT holds the
\* same key.
InsertPending(usn, uid) ==
    \E c \in conn :
        /\ c.op = "add_student"
        /\ c.pc = "commit"
        /\ (c.uid = uid \/ c.usn = usn)

\* add_student up to and including the INSERT.
AddStudentInsert(rawusn, rawuid, complete, bal) ==
    LET usn == Upper(rawusn)
        uid == Upper(rawuid)
        c   == [Begin("add_student") EXCEPT !.usn = usn, !.uid = uid,
                            !.new_bal = bal]
    IN  /\ Free
        /\ started' = started + 1
        /\ IF usn = "" \/ uid = "" \/ ~complete
           THEN Send(c, Reply(c, 400, FALSE, "All fields required"))
           ELSE IF UniqueViolation(usn, uid)
           THEN Send(c, Reply(c, 400, FALSE, "USN or UID exists"))
           ELSE /\ ~InsertPending(usn, uid)
                /\ Continue(c, [c EXCEPT !.pc = "commit"])
        /\ UNCHANGED <<students, transactions, now, enrolled>>

\* The row the INSERT of add_student creates (blocked DEFAULT FALSE).
NewStudent(c) ==
    [uid |-> c.uid, usn |-> c.usn, balance |-> c.new_bal, blocked |-> FALSE]

\* con.commit() of add_student and the reply.
AddStudentCommit(c) ==
    /\ c.op = "add_student"
    /\ c.pc = "commit"
    /\ students' = students \cup {NewStudent(c)}
    /\ enrolled' = (c.uid :> c.new_bal) @@ enrolled
    /\ Send(c, Reply(c, 200, TRUE, "success"))
    /\ UNCHANGED <<transactions, now, started>>

\* ----------------------------------------------------------------- deduct
\* INSERT INTO transactions(uid,amount,status); timestamp defaults to
\* CURRENT_TIMESTAMP, the start time of the inserting transaction.
TxRecord(uid, amt, status, ts) ==
    [uid |-> uid, amount |-> amt, status |-> status, timestamp |-> ts]

\* Mutant: the condition without its funds check.
RefusedIgnoringFunds(s, amt) == s = NoRow \/ s.blocked

\* The condition of line 289: the debit is refused.
Refused(s, amt) == s = NoRow \/ s.blocked \/ s.balance < amt

\* Mutant: the refusal is logged without looking at the row.
RowAssumed(s) == TRUE

\* if s: the refusal is logged only when the card's row was found (line 290).
RowFound(s) == s # NoRow

\* return jsonify({"ok":False}),400 : the reply of every refused debit.
DeductRefusal(c) == Reply(c, 400, FALSE, "")

\* deduct up to the branch on the selected row.
DeductSelect(rawuid, amt, tick) ==
    LET uid == Upper(rawuid)
        s   == ByUid(uid)
        c   == [Begin("deduct") EXCEPT !.uid = uid, !.amt = amt, !.s = s,
                                       !.ts = now']
    IN  /\ Free
        /\ Tick(tick)
        /\ started' = started + 1
        /\ IF Refused(s, amt)
           THEN IF RowFound(s)
                THEN Continue(c, [c EXCEPT !.pc = "fail_commit"])
                ELSE Send(c, DeductRefusal(c))
           ELSE Continue(c, [c EXCEPT !.pc = "update", !.new_bal = s.balance - amt])
        /\ UNCHANGED <<students, transactions, enrolled>>

\* The refused branch: INSERT of the 'failed' record, commit, reply.
DeductFailCommit(c) ==
    /\ c.op = "deduct"
    /\ c.pc = "fail_commit"
    /\ transactions' = Append(transactions,
                              TxRecord(c.uid, c.amt, "failed", c.ts))
    /\ Send(c, DeductRefusal(c))
    /\ UNCHANGED <<students, now, started, enrolled>>

\* UPDATE students SET balance=%s WHERE uid=%s : waits for the row's lock.
DeductUpdate(c) ==
    /\ c.op = "deduct"
    /\ c.pc = "update"
    /\ LockFree(c.uid)
    /\ Continue(c, [c EXCEPT !.pc = "commit"])
    /\ UNCHANGED <<students, transactions, now, started, enrolled>>

\* Mutant: the UPDATE has no WHERE clause.
SetBalanceOfAll(uid, new_bal) ==
    {[r EXCEPT !.balance = new_bal] : r \in students}

\* The table after UPDATE students SET balance=new_bal WHERE uid=uid.
SetBalanceByUid(uid, new_bal) ==
    {IF r.uid = uid THEN [r EXCEPT !.balance = new_bal] ELSE r : r \in students}

\* The 'success' INSERT, con.commit() and the reply of deduct.
DeductCommit(c) ==
    /\ c.op = "deduct"
    /\ c.pc = "commit"
    /\ students' = SetBalanceByUid(c.uid, c.new_bal)
    /\ transactions' = Append(transactions,
                              TxRecord(c.uid, c.amt, "success", c.ts))
    /\ Send(c, [Reply(c, 200, TRUE, "") EXCEPT !.balance = c.new_bal])
    /\ UNCHANGED <<now, started, enrolled>>


\* ------------------------------------------------------------ add_balance
\* add_balance up to the computation of new_bal.
AddBalanceSelect(rawusn, amt, tick) ==
    LET usn == Upper(rawusn)
        s   == ByUsn(usn)
        c   == [Begin("add_balance") EXCEPT !.usn = usn, !.amt = amt, !.s = s,
                                            !.ts = now']
    IN  /\ Free
        /\ Tick(tick)
        /\ started' = started + 1
        /\ IF s = NoRow
           THEN Send(c, Crash(c))
           ELSE Continue(c, [c EXCEPT !.pc = "update", !.uid = s.uid,
                                        !.new_bal = s.balance + amt])
        /\ UNCHANGED <<students, transactions, enrolled>>

\* UPDATE students SET balance=%s WHERE usn=%s : waits for the row's lock.
AddBalanceUpdate(c) ==
    /\ c.op = "add_balance"
    /\ c.pc = "update"
    /\ LockFree(c.s.uid)
    /\ Continue(c, [c EXCEPT !.pc = "commit"])
    /\ UNCHANGED <<students, transactions, now, started, enrolled>>

\* The table after UPDATE students SET balance=new_bal WHERE usn=usn.
SetBalanceByUsn(usn, new_bal) ==
    {IF r.usn = usn THEN [r EXCEPT !.balance = new_bal] ELSE r : r \in students}

\* The 'topup' INSERT, con.commit() and the reply of add_balance.
AddBalanceCommit(c) ==
    /\ c.op = "add_balance"
    /\ c.pc = "commit"
    /\ students' = SetBalanceByUsn(c.usn, c.new_bal)
    /\ transactions' = Append(transactions,
                              TxRecord(c.s.uid, c.amt, "topup", c.ts))
    /\ Send(c, Reply(c, 200, TRUE, "success"))
    /\ UNCHANGED <<now, started, enrolled>>

\* -------------------------------------------------------- storage failure
\* A statement or the commit of a handler raises psycopg2.Error: the handler
\* has no except clause, Flask answers 500; pc stays at the position that
\* raised.
Raise(c) ==
    [c EXCEPT !.code = 500, !.ok = FALSE, !.msg = "Internal Server Error"]

\* Mutant: the connection is in autocommit mode, so an UPDATE that was
\* issued stays when a later statement fails.
Autocommit(c) ==
    IF c.pc # "commit" THEN students
    ELSE IF c.op = "deduct" THEN SetBalanceByUid(c.uid, c.new_bal)
    ELSE SetBalanceByUsn(c.usn, c.new_bal)

\* psycopg2.connect() opens the connection with autocommit off: the
\* statements of a transaction that never reaches con.commit() are rolled
\* back when the connection is dropped, and the table is as committed.
Rollback(c) == students

\* deduct: the 'failed' INSERT, the UPDATE, the 'success' INSERT or the
\* commit fails.
DeductStorageFailure(c) ==
    /\ c.op = "deduct"
    /\ c.pc \in {"fail_commit", "update", "commit"}
    /\ students' = Rollback(c)
    /\ Send(c, Raise(c))
    /\ UNCHANGED <<transactions, now, started, enrolled>>

\* add_balance: the UPDATE, the 'topup' INSERT or the commit fails.
AddBalanceStorageFailure(c) ==
    /\ c.op = "add_balance"
    /\ c.pc \in {"update", "commit"}
    /\ students' = Rollback(c)
    /\ Send(c, Raise(c))
    /\ UNCHANGED <<transactions, now, started, enrolled>>

\* --------------------------------------------------------- block / unblock
\* UPDATE students SET blocked=... WHERE usn=%s, then SELECT phone: with no
\* such row fetchone() is None and None["phone"] raises.
SetBlockedUpdate(op, rawusn, flag) ==
    LET usn == Upper(rawusn)
        s   == ByUsn(usn)
        c   == [Begin(op) EXCEPT !.usn = usn, !.s = s, !.flag = flag]
    IN  /\ Free
        /\ started' = started + 1
        /\ IF s = NoRow
           THEN Send(c, Crash(c))
           ELSE /\ LockFree(s.uid)
                /\ Continue(c, [c EXCEPT !.pc = "commit", !.uid = s.uid])
        /\ UNCHANGED <<students, transactions, now, enrolled>>

\* Mutant: the UPDATE inverts the flag instead of setting it.
ToggleBlockedByUsn(usn, flag) ==
    {IF r.usn = usn THEN [r EXCEPT !.blocked = ~@] ELSE r : r \in students}

\* The table after UPDATE students SET blocked=flag WHERE usn=usn.
SetBlockedByUsn(usn, flag) ==
    {IF r.usn = usn THEN [r EXCEPT !.blocked = flag] ELSE r : r \in students}

\* Mutant: the handler also deletes the account's transaction records.
SetBlockedCommitPurging(c, op) ==
    /\ c.op = op
    /\ c.pc = "commit"
    /\ students' = SetBlockedByUsn(c.usn, c.flag)
    /\ transactions' = SelectSeq(transactions, LAMBDA r : r.uid # c.uid)
    /\ Send(c, Reply(c, 200, TRUE, "success"))
    /\ UNCHANGED <<now, started, enrolled>>

\* con.commit() and the reply of block and of unblock.
SetBlockedCommit(c, op) ==
    /\ c.op = op
    /\ c.pc = "commit"
    /\ students' = SetBlockedByUsn(c.usn, c.flag)
    /\ Send(c, Reply(c, 200, TRUE, "success"))
    /\ UNCHANGED <<transactions, now, started, enrolled>>

BlockUpdate(rawusn) == SetBlockedUpdate("block", rawusn, TRUE)
BlockCommit(c) == SetBlockedCommit(c, "block")
UnblockUpdate(rawusn) == SetBlockedUpdate("unblock", rawusn, FALSE)
UnblockCommit(c) == SetBlockedCommit(c, "unblock")

\* ----------------------------------------------------------------- verify
Verify(rawuid) ==
    LET uid == Upper(rawuid)
        s   == ByUid(uid)
        c   == [Begin("verify") EXCEPT !.uid = uid, !.s = s]
    IN  /\ Free
        /\ started' = started + 1
        /\ Send(c, IF s = NoRow THEN Reply(c, 404, FALSE, "")
                    ELSE IF s.blocked THEN Reply(c, 403, FALSE, "blocked")
                    ELSE [Reply(c, 200, TRUE, "") EXCEPT !.balance = s.balance])
        /\ UNCHANGED <<students, transactions, now, enrolled>>

\* --------------------------------------------------------- student_by_usn
\* The first SELECT of the dashboard: the student row; with no such row
\* s["uid"] raises.
StudentByUsnSelect(rawusn) ==
    LET usn == Upper(rawusn)
        s   == ByUsn(usn)
        c   == [Begin("student_by_usn") EXCEPT !.usn = usn, !.s = s]
    IN  /\ Free
        /\ started' = started + 1
        /\ IF s = NoRow
           THEN Send(c, Crash(c))
           ELSE Continue(c, [c EXCEPT !.pc = "select_tx", !.uid = s.uid])
        /\ UNCHANGED <<students, transactions, now, enrolled>>

Remove(q, i) == SubSeq(q, 1, i - 1) \o SubSeq(q, i + 1, Len(q))

\* ORDER BY timestamp DESC (among equal timestamps, the later row first).
RECURSIVE OrderByTimestampDesc(_)
OrderByTimestampDesc(q) ==
    IF q = <<>> THEN <<>>
    ELSE LET i == CHOOSE i \in 1..Len(q) : \A j \in 1..Len(q) :
                     \/ q[j].timestamp < q[i].timestamp
                     \/ (q[j].timestamp = q[i].timestamp /\ j <= i)
         IN  <<q[i]>> \o OrderByTimestampDesc(Remove(q, i))

\* SELECT amount,status,timestamp FROM transactions WHERE uid=%s
\* ORDER BY timestamp DESC LIMIT 20
RecentFor(uid) ==
    LET mine   == SelectSeq(transactions, LAMBDA r : r.uid = uid)
        sorted == OrderByTimestampDesc(mine)
    IN  SubSeq(sorted, 1, IF Len(sorted) < RecentLimit THEN Len(sorted) ELSE RecentLimit)

\* The second SELECT of the dashboard and the reply.
StudentByUsnSelectTx(c) ==
    /\ c.op = "student_by_usn"
    /\ c.pc = "select_tx"
    /\ Send(c, [Reply(c, 200, TRUE, "success")
                   EXCEPT !.balance = c.s.balance, !.tx = RecentFor(c.s.uid)])
    /\ UNCHANGED <<students, transactions, now, started, enrolled>>

\* ------------------------------------------------------ admin_transactions
\* SELECT t.amount, t.status, t.timestamp, s.name, s.usn FROM transactions t
\* JOIN students s ON s.uid = t.uid ORDER BY t.timestamp DESC LIMIT %s, with
\* the default limit; one statement, one snapshot.
AdminTransactions ==
    LET c      == Begin("admin_transactions")
        joined == SelectSeq(transactions,
                            LAMBDA r : \E s \in students : s.uid = r.uid)
        sorted == OrderByTimestampDesc(joined)
        n      == IF Len(sorted) < DefaultLimit THEN Len(sorted) ELSE DefaultLimit
        row(r) == [amount |-> r.amount, status |-> r.status,
                   timestamp |-> r.timestamp, usn |-> ByUid(r.uid).usn]
    IN  /\ Free
        /\ started' = started + 1
        /\ Send(c, [Reply(c, 200, TRUE, "success")
                       EXCEPT !.tx = [i \in 1..n |-> row(sorted[i])]])
        /\ UNCHANGED <<students, transactions, now, enrolled>>

\* ------------------------------------------------------------------- Next
Next ==
    \/ \E rawusn \in RawUsns, rawuid \in RawUids,
          complete \in BOOLEAN, bal \in InitBalances :
          AddStudentInsert(rawusn, rawuid, complete, bal)
    \/ \E c \in conn : AddStudentCommit(c)
    \/ \E rawuid \in RawUids, amt \in Amounts, tick \in BOOLEAN :
          DeductSelect(rawuid, amt, tick)
    \/ \E c \in conn : DeductFailCommit(c)
    \/ \E c \in conn : DeductUpdate(c)
    \/ \E c \in conn : DeductCommit(c)
    \/ \E rawusn \in RawUsns, amt \in Amounts, tick \in BOOLEAN :
          AddBalanceSelect(rawusn, amt, tick)
    \/ \E c \in conn : AddBalanceUpdate(c)
    \/ \E c \in conn : AddBalanceCommit(c)
    \/ \E c \in conn : DeductStorageFailure(c)
    \/ \E c \in conn : AddBalanceStorageFailure(c)
    \/ \E rawusn \in RawUsns : BlockUpdate(rawusn)
    \/ \E c \in conn : BlockCommit(c)
    \/ \E rawusn \in RawUsns : UnblockUpdate(rawusn)
    \/ \E c \in conn : UnblockCommit(c)
    \/ \E rawuid \in RawUids : Verify(rawuid)
    \/ \E rawusn \in RawUsns : StudentByUsnSelect(rawusn)
    \/ \E c \in conn : StudentByUsnSelectTx(c)
    \/ AdminTransactions

Spec == Init /\ [][Next]_vars


\* ------------------------------------------------------- derived quantities
\* balance of the committed row with this uid in table tbl.
BalanceOf(tbl, uid) == (CHOOSE r \in tbl : r.uid = uid).balance

RECURSIVE SumAmounts(_, _, _)
\* SUM(amount) over the records of log q with this uid and status.
SumAmounts(q, uid, status) ==
    IF q = <<>> THEN 0
    ELSE (IF Head(q).uid = uid /\ Head(q).status = status THEN Head(q).amount ELSE 0)
         + SumAmounts(Tail(q), uid, status)

\* The step sends the reply of in-flight request c.
Replies(c) == c \in conn /\ c \notin conn' /\ reply'.id = c.id

\* The step serves a newly arrived request up to its first statement.
Arrives == started' = started + 1

\* The locals of the request that arrives in this step.
Arrived == IF reply'.id = started' THEN reply' ELSE CHOOSE c \in conn' : c.id = started'

\* ------------------------------------------------------------------ claims

\* C1: two concurrent debits on one account that each fit the balance b they
\* read but together exceed it never both succeed: a debit of a2 that read b
\* does not commit a success when the latest record of its card is an accepted
\* debit of a1 that also read b (it left the committed balance at b - a1),
\* with 0 < a1 <= b, 0 < a2 <= b and a1 + a2 > b.
C1_ConcurrentDebitSerialization ==
    [][\A c \in conn : \A i \in 1..Len(transactions) :
        ~ ( /\ c.op = "deduct" /\ c.pc = "commit" /\ c.amt > 0
            /\ \A k \in 1..Len(transactions) : transactions[k].amount > 0
            /\ transactions[i].uid = c.uid
            /\ transactions[i].status = "success"
            /\ \A k \in (i+1)..Len(transactions) : transactions[k].uid # c.uid
            /\ BalanceOf(students, c.uid) = c.s.balance - transactions[i].amount
            /\ transactions[i].amount <= c.s.balance /\ c.amt <= c.s.balance
            /\ transactions[i].amount + c.amt > c.s.balance
            /\ Replies(c) /\ reply'.ok )]_vars

\* C2: whenever no request is in flight, every account's balance is the
\* balance it was enrolled with plus its 'topup' amounts minus its 'success'
\* amounts (stated for logs of positive amounts, the amounts a Debit or
\* Credit call may carry).
C2_MoneyConserved ==
    (conn = {} /\ \A i \in 1..Len(transactions) : transactions[i].amount > 0) =>
        \A r \in students :
            r.balance = enrolled[r.uid]
                        + SumAmounts(transactions, r.uid, "topup")
                        - SumAmounts(transactions, r.uid, "success")

\* C3: the stored balance of every account is never negative.
C3_NoNegativeBalance == \A r \in students : r.balance >= 0

\* C4: while only positive amounts are requested, a Debit or Credit call that
\* replies success adds
\* exactly one record for its card, of the requested amount, 'success' with
\* the committed balance lowered by the amount or 'topup' with it raised by the
\* amount; and no step changes a balance without appending a record.
C4_LogBalancePairing ==
    [][ /\ \A c \in conn :
             (Replies(c) /\ reply'.ok /\ c.op \in {"deduct", "add_balance"}
                /\ c.amt > 0
                /\ \A i \in 1..Len(transactions) : transactions[i].amount > 0) =>
                /\ Len(transactions') = Len(transactions) + 1
                /\ LET rec == transactions'[Len(transactions')]
                   IN  /\ rec.uid = c.uid /\ rec.amount = c.amt
                       /\ rec.status = (IF c.op = "deduct" THEN "success" ELSE "topup")
                       /\ BalanceOf(students', c.uid) =
                             BalanceOf(students, c.uid)
                             + (IF c.op = "deduct" THEN 0 - c.amt ELSE c.amt)
        /\ (\E r \in students : BalanceOf(students', r.uid) # r.balance) =>
               Len(transactions') = Len(transactions) + 1 ]_vars


\* C5: a blocked account admits no successful debit: a Debit that arrives
\* while the committed row is blocked does not pass the check of line 289 and
\* changes no row, and no Debit of a positive amount commits a success while
\* the committed row is blocked (a block request that committed while the
\* Debit was in flight).
C5_BlockedAdmitsNoDebit ==
    [][ /\ (Arrives /\ Arrived.op = "deduct" /\ ByUid(Arrived.uid) # NoRow
              /\ ByUid(Arrived.uid).blocked) =>
                 (Arrived.pc # "update" /\ students' = students)
        /\ \A c \in conn :
             (c.op = "deduct" /\ c.amt > 0 /\ Replies(c) /\ reply'.ok) =>
                 ~ByUid(c.uid).blocked ]_vars

\* C6: two tap-path debits of one card that arrive at the same clock value
\* (closer together than any suppression window) are not both accepted: the
\* log never holds two 'success' records of positive amounts for one card with
\* the same timestamp while the card's balance reflects every logged
\* deduction.
C6_ReplaySuppression ==
    \A r \in students :
        ~ ( /\ r.balance = enrolled[r.uid]
                           + SumAmounts(transactions, r.uid, "topup")
                           - SumAmounts(transactions, r.uid, "success")
            /\ \E i, j \in 1..Len(transactions) :
                 /\ i < j
                 /\ transactions[i].uid = r.uid /\ transactions[j].uid = r.uid
                 /\ transactions[i].status = "success" /\ transactions[j].status = "success"
                 /\ transactions[i].amount > 0 /\ transactions[j].amount > 0
                 /\ transactions[i].timestamp = transactions[j].timestamp )

\* C7: the dashboard never returns a balance together with a transaction list
\* that were not committed together: the balance it returns is the committed
\* balance of the moment its transaction list is read (every balance change
\* appends a record for the card, so an older balance lacks the effect of a
\* record in the list). Stated for logs of positive amounts.
C7_AtomicVisibility ==
    [][\A c \in conn :
        (c.op = "student_by_usn" /\ Replies(c) /\ reply'.ok
           /\ \A i \in 1..Len(transactions) : transactions[i].amount > 0) =>
            reply'.balance = BalanceOf(students, c.uid)]_vars

\* C8: a Debit of a positive amount on an existing account that it finds
\* blocked (and with funds for the amount, so refused for the block alone) is
\* refused and leaves the transaction log as it was.
C8_BlockedDebitWritesNoRecord ==
    [][\A c \in conn :
        (c.op = "deduct" /\ c.amt > 0 /\ c.s # NoRow /\ c.s.blocked
           /\ c.s.balance >= c.amt /\ Replies(c)) =>
            (~reply'.ok /\ transactions' = transactions)]_vars

\* The Debit c found its account existing, unblocked and short of funds.
ShortOfFunds(c) ==
    c.op = "deduct" /\ c.s # NoRow /\ ~c.s.blocked /\ c.s.balance < c.amt

\* C9: a Debit of amount a that finds its account existing, unblocked and with
\* balance < a never passes the check, and, its storage writes not failing,
\* ends by replying failure (400, ok false) with every account row unchanged
\* and exactly one record appended: 'failed', with the request's card and
\* amount a.
C9_InsufficientFunds ==
    /\ [](\A c \in conn : ShortOfFunds(c) => c.pc = "fail_commit")
    /\ [][\A c \in conn :
            (ShortOfFunds(c) /\ Replies(c) /\ reply'.code # 500) =>
                /\ ~reply'.ok /\ reply'.code = 400
                /\ students' = students
                /\ Len(transactions') = Len(transactions) + 1
                /\ SubSeq(transactions', 1, Len(transactions)) = transactions
                /\ LET rec == transactions'[Len(transactions')]
                   IN  rec.uid = c.uid /\ rec.amount = c.amt /\ rec.status = "failed"]_vars

\* A Debit has just failed for lack of funds and its record is the last one.
C9_Witness ==
    /\ ShortOfFunds(reply) /\ reply.pc = "done" /\ ~reply.ok /\ reply.amt > 0
    /\ Len(transactions) > 0
    /\ transactions[Len(transactions)].status = "failed"
    /\ transactions[Len(transactions)].uid = reply.uid
    /\ transactions[Len(transactions)].amount = reply.amt

\* C10: no two accounts share a uid or a usn, and an Enroll carrying every
\* required field whose uid or usn is that of a committed account is answered
\* 400 "USN or UID exists" in the step it arrives, with the accounts and the
\* transaction log unchanged.
C10_EnrollUniqueness ==
    /\ [](\A r1, r2 \in students : (r1.uid = r2.uid \/ r1.usn = r2.usn) => r1 = r2)
    /\ [][(/\ Arrives /\ Arrived.op = "add_student"
           /\ Arrived.msg # "All fields required"
           /\ \E r \in students : r.uid = Arrived.uid \/ r.usn = Arrived.usn) =>
              /\ reply' = Arrived
              /\ ~reply'.ok /\ reply'.code = 400 /\ reply'.msg = "USN or UID exists"
              /\ students' = students
              /\ transactions' = transactions]_vars

\* An Enroll was refused as a duplicate of the one account there is, which is
\* as it was created.
C10_Witness ==
    /\ reply.op = "add_student" /\ reply.msg = "USN or UID exists"
    /\ \E r \in students :
         /\ (r.uid = reply.uid \/ r.usn = reply.usn)
         /\ r.balance = enrolled[r.uid] /\ ~r.blocked

\* C11: a Debit or Credit whose storage write fails (the UPDATE, the INSERT or
\* the commit, also after the UPDATE was issued) leaves every account row and
\* the transaction log as committed before; and a Debit or Credit that ends
\* either commits both its balance and its record or changes no balance.
C11_StorageFailureAborts ==
    [][\A c \in conn :
        (Replies(c) /\ c.op \in {"deduct", "add_balance"}) =>
            /\ reply'.code = 500 =>
                  students' = students /\ transactions' = transactions
            /\ reply'.ok =>
                  /\ BalanceOf(students', c.s.uid) = c.new_bal
                  /\ transactions' = Append(transactions,
                        TxRecord(c.s.uid, c.amt,
                                 IF c.op = "deduct" THEN "success" ELSE "topup",
                                 c.ts))
            /\ ~reply'.ok => students' = students]_vars

\* A Debit failed after its UPDATE was issued; the account has the balance
\* the Debit read and the log has no record of it.
C11_Witness ==
    /\ reply.op = "deduct" /\ reply.code = 500 /\ reply.pc = "commit"
    /\ reply.amt > 0 /\ reply.new_bal # reply.s.balance
    /\ BalanceOf(students, reply.uid) = reply.s.balance
    /\ transactions = <<>>

\* The reason a Debit of amt on row s is refused, in the order the policy
\* checks them; "none" when it is accepted.
Cause(s, amt) ==
    IF s = NoRow THEN "not_found"
    ELSE IF s.blocked THEN "blocked"
    ELSE IF s.balance < amt THEN "insufficient_funds"
    ELSE "none"

\* What the caller of a request sees of its reply.
Response(r) == <<r.code, r.ok, r.msg>>

\* C12: the response of a refused Debit tells its cause: when a Debit of a
\* positive amount has been refused, a Debit refused for another of the three
\* causes (unknown card, blocked card, insufficient funds) gets a different
\* response.
C12_DistinctReasonCodes ==
    (/\ reply.op = "deduct" /\ reply.pc = "done" /\ ~reply.ok
     /\ reply.code # 500 /\ reply.amt > 0) =>
        \A s \in students \cup {NoRow}, amt \in Amounts :
            (amt > 0 /\ Cause(s, amt) \notin {"none", Cause(reply.s, reply.amt)}) =>
                Response(DeductRefusal([Begin("deduct") EXCEPT !.s = s, !.amt = amt])) # Response(reply)

\* The committed row with this uid in table tbl.
RowOf(tbl, uid) == CHOOSE r \in tbl : r.uid = uid

\* C13: a Credit of a > 0 on an existing account, blocked or not, whose storage
\* writes do not fail, replies success, leaves the account with exactly the
\* balance it had before plus a and with its blocked flag as it was, and
\* appends exactly one record, the 'topup' of a for the account (stated for
\* logs of positive amounts).
C13_CreditIgnoresBlock ==
    [][\A c \in conn :
        (/\ Replies(c) /\ c.op = "add_balance" /\ c.amt > 0
         /\ reply'.code # 500
         /\ \A i \in 1..Len(transactions) : transactions[i].amount > 0) =>
            /\ reply'.ok
            /\ RowOf(students', c.s.uid) =
                  [RowOf(students, c.s.uid) EXCEPT !.balance = @ + c.amt]
            /\ transactions' = Append(transactions,
                                      TxRecord(c.s.uid, c.amt, "topup", c.ts))]_vars

\* C14: a Credit, a block or an unblock that names an identifier with no
\* account is answered in the step it arrives with a failure the handler
\* produced itself (not the 500 of an unhandled exception), and leaves every
\* account and the transaction log unchanged.
C14_AbsentAccountTyped ==
    [][(/\ Arrives
        /\ Arrived.op \in {"add_balance", "block", "unblock"}
        /\ Arrived.op = "add_balance" => Arrived.amt > 0
        /\ Arrived.s = NoRow) =>
            /\ reply' = Arrived
            /\ ~reply'.ok /\ reply'.code # 500
            /\ students' = students
            /\ transactions' = transactions]_vars

\* C15: a block (unblock) of an existing account replies success, sets that
\* account's blocked flag to true (false) and changes nothing else: not its
\* balance, no other account, not the transaction log; when the flag already
\* has the requested value the request succeeds all the same and the state
\* stays as it is.
C15_SetBlockedIdempotent ==
    [][\A c \in conn :
        (Replies(c) /\ c.op \in {"block", "unblock"}) =>
            /\ reply'.ok
            /\ students' = {IF r.uid = c.s.uid
                            THEN [r EXCEPT !.blocked = (c.op = "block")]
                            ELSE r : r \in students}
            /\ transactions' = transactions
            /\ RowOf(students, c.s.uid).blocked = (c.op = "block") =>
                  students' = students]_vars

\* A block was applied to an account that was blocked already: it succeeded
\* and the account is as the request found it.
C15_Witness ==
    /\ reply.op = "block" /\ reply.ok /\ reply.pc = "done"
    /\ reply.s # NoRow /\ reply.s.blocked
    /\ RowOf(students, reply.uid) = reply.s

\* C16: every record of the transaction log has an amount > 0, and a Debit or
\* Credit request whose amount is <= 0 ends without changing an account or
\* appending a record.
C16_PositiveAmounts ==
    /\ [](\A i \in 1..Len(transactions) : transactions[i].amount > 0)
    /\ [][\A c \in conn :
            (Replies(c) /\ c.op \in {"deduct", "add_balance"} /\ c.amt <= 0) =>
                students' = students /\ transactions' = transactions]_vars

\* C17: the transaction log is append-only: after every step of every handler
\* the log before the step is a prefix of the log after it.
C17_LogAppendOnly ==
    [][/\ Len(transactions') >= Len(transactions)
       /\ SubSeq(transactions', 1, Len(transactions)) = transactions]_vars

\* An account with a record in the log has just been blocked, and the record
\* is still there.
C17_Witness ==
    /\ reply.op = "block" /\ reply.ok /\ reply.pc = "done"
    /\ \E i \in 1..Len(transactions) : transactions[i].uid = reply.uid

\* Request d is addressed to the account with this uid.
Addresses(d, uid) == d.uid = uid \/ (d.s # NoRow /\ d.s.uid = uid)

C19_LogReferencesEnrolled ==
    /\ [](\A i \in 1..Len(transactions) :
            \E r \in students : r.uid = transactions[i].uid)
    /\ [][(Arrives /\ Arrived.op = "deduct" /\ Arrived.s = NoRow) =>
            /\ reply' = Arrived
            /\ ~reply'.ok /\ reply'.code = 400
            /\ students' = students
            /\ transactions' = transactions]_vars

\* A Debit for an unknown card was refused while an account and a record of
\* it exist.
C19_Witness ==
    /\ reply.op = "deduct" /\ reply.pc = "done" /\ reply.s = NoRow
    /\ ~reply.ok /\ reply.amt > 0
    /\ students # {} /\ transactions # <<>>
    /\ \A r \in students : r.uid # reply.uid

=============================================================================
